---- MODULE Spec2Model ----
(***************************************************************************)
(* Model of the device-data record generators of the data-model            *)
(* repository: src/device-data/basal.js (schema fragments, composition by  *)
(* _.assign, generation and post-processing) and                           *)
(* src/device-data/bloodKetone.js.                                         *)
(*                                                                         *)
(* Units.  Times are minutes since an arbitrary hour boundary.  Durations  *)
(* are milliseconds.  percent is kept in twentieths (percentInstance       *)
(* yields multiples of 0.05).  Every rate is kept in units of 1/800 U/h    *)
(* (a basal rate value of resolution 0.025 = 1/40, times PercentScale), so *)
(* that percent * rate stays an integer.                                   *)
(***************************************************************************)
EXTENDS Integers, Sequences, FiniteSets, TLC

VARIABLES
    schemas,     \* the module-level fragments of basal.js: base, scheduled, temp, suspend
    opts,        \* the argument of the last call
    effective,   \* the mappings the last call composed: for the outer record and,
                 \* for temp and suspend, for the suppressed one
    genArgs,     \* the (utc, format) arguments the last call handed to common.generate
    returned,    \* the value the last call returned to its caller
    trace,       \* the steps the last call ran, in order
    stderr,      \* number of messages written by console.error
    exited       \* process.exit() was called

vars == <<schemas, opts, effective, genArgs, returned, trace, stderr, exited>>

-----------------------------------------------------------------------------
(* Small helpers for JavaScript objects, modelled as functions from key to *)
(* value.                                                                   *)

Empty == <<>>

Has(o, k) == k \in DOMAIN o

\* delete o[k]
Delete(o, k) == [x \in (DOMAIN o) \ {k} |-> o[x]]

\* o[k] = v
Put(o, k, v) == [x \in (DOMAIN o) \cup {k} |-> IF x = k THEN v ELSE o[x]]

-----------------------------------------------------------------------------
(* Literals of basal.js.                                                    *)

DELIVERY_TYPES == [scheduled |-> "scheduled", temp |-> "temp", suspend |-> "suspend"]

TYPE == "basal"

PercentScale == 20

RateScale == 40

MS_PER_DAY == 86400000

\* instance values: a literal string, a literal number, a literal object {}
\* or a zero-argument function
Str(s) == [kind |-> "string", str |-> s, num |-> 0]
Num(n) == [kind |-> "number", str |-> "", num |-> n]
Obj == [kind |-> "object", str |-> "{}", num |-> 0]
Fn(f) == [kind |-> "function", str |-> f, num |-> 0]

Required(j, p) == [jellyfish |-> j, platform |-> p]

percentSummary ==
    [required |-> Required("false", "false"),
     range |-> [min |-> 0, max |-> 10 * PercentScale]]

\* common.basalRateSummary
basalRateSummary ==
    [required |-> Required("true", "true"),
     range |-> [min |-> 0, max |-> 20 * RateScale * PercentScale]]

previousDescriptor ==
    [instance |-> Obj, summary |-> [required |-> Required("false", "null")]]

scheduleNameDescriptor ==
    [instance |-> Str("SCHEDULE_NAMES"),
     summary |-> [required |-> Required("false", "false")]]

InitSchemas ==
    [base |->
        [type |-> [instance |-> Str(TYPE),
                   summary |-> [required |-> Required("true", "true")]]],
     scheduled |->
        [deliveryType |-> [instance |-> Str(DELIVERY_TYPES.scheduled),
                           summary |-> [required |-> Required("true", "true")]],
         duration |-> [instance |-> Fn("duration"),
                       summary |-> [required |-> Required("false", "true"),
                                    range |-> [min |-> 0, max |-> 432000000]]],
         expectedDuration |-> [instance |-> Num(0),
                               summary |-> [required |-> Required("false", "false"),
                                            range |-> [minRef |-> "duration",
                                                       max |-> 432000000]]],
         rate |-> [instance |-> Fn("basalRateValue"), summary |-> basalRateSummary],
         previous |-> previousDescriptor,
         scheduleName |-> scheduleNameDescriptor],
     temp |->
        [deliveryType |-> [instance |-> Str(DELIVERY_TYPES.temp),
                           summary |-> [required |-> Required("true", "true")]],
         duration |-> [instance |-> Fn("duration"),
                       summary |-> [required |-> Required("true", "true"),
                                    range |-> [min |-> 0, max |-> MS_PER_DAY]]],
         expectedDuration |-> [instance |-> Num(0),
                               summary |-> [required |-> Required("false", "false"),
                                            range |-> [minRef |-> "duration",
                                                       max |-> MS_PER_DAY]]],
         percent |-> [instance |-> Fn("percentInstance"), summary |-> percentSummary],
         previous |-> previousDescriptor,
         rate |-> [instance |-> Num(0),
                   summary |-> [required |-> Required("false", "true"),
                                range |-> [min |-> 0,
                                           max |-> 20 * RateScale * PercentScale]]],
         suppressed |-> [instance |-> Obj,
                         summary |-> [required |-> Required("false", "false"),
                                      nested |-> TRUE,
                                      keys |-> {"type", "deliveryType", "rate",
                                                "scheduleName"}]]],
     suspend |->
        [deliveryType |-> [instance |-> Str(DELIVERY_TYPES.suspend),
                           summary |-> [required |-> Required("true", "true")]],
         duration |-> [instance |-> Fn("duration"),
                       summary |-> [required |-> Required("false", "true"),
                                    range |-> [min |-> 0, max |-> MS_PER_DAY]]],
         expectedDuration |-> [instance |-> Num(0),
                               summary |-> [required |-> Required("false", "false"),
                                            range |-> [minRef |-> "duration",
                                                       max |-> MS_PER_DAY]]],
         previous |-> previousDescriptor,
         suppressed |-> [instance |-> Obj,
                         summary |-> [required |-> Required("false", "false"),
                                      nested |-> TRUE,
                                      keys |-> {"type", "deliveryType", "percent", "rate",
                                                "scheduleName", "suppressed"}]]]]

\* module.deliveryTypes = _.values(DELIVERY_TYPES)
deliveryTypes == {DELIVERY_TYPES[k] : k \in DOMAIN DELIVERY_TYPES}

-----------------------------------------------------------------------------
(* Inputs.                                                                  *)

MaxHour == 1

\* opts.timestamp / utc, in minutes: the first and the last minute of each hour
Timestamps == {h * 60 + m : h \in 0..MaxHour, m \in {0, 59}}

Formats == {"client", "ingestion", "storage"}

\* opts.subType: the three known ones, an unknown one, and a missing one
SubTypes == deliveryTypes \cup {"bolus", "undefined"}

\* results of chance.floating({min: 0, max: 1}), in thousandths
FloatingSamples == {0, 25, 1000}

\* results of common.duration(), in milliseconds
DurationSamples == {0, MS_PER_DAY}

\* results of common.basalRateValue(), in units of 1/RateScale
RateSamples == {0, 1, 20 * RateScale}

\* results of chance.floating({min: 0, max: 5, fixed: 1}), in tenths
KetoneSamples == {0, 6, 50}

\* the functions a schema's instances name
Functions(schema) ==
    {schema[k].instance.str : k \in {x \in DOMAIN schema : schema[x].instance.kind = "function"}}

\* one result for every random function the generation of schema calls
Draws(schema) ==
    LET fs == Functions(schema)
        pick(f, S) == IF f \in fs THEN S ELSE {0}
    IN  {[duration |-> d, floating |-> f, rate |-> r, ketone |-> v] :
            d \in pick("duration", DurationSamples),
            f \in pick("percentInstance", FloatingSamples),
            r \in pick("basalRateValue", RateSamples),
            v \in pick("bloodKetoneValue", KetoneSamples)}

-----------------------------------------------------------------------------
(* basal.js                                                                 *)

\* Math.round(chance.floating({min:0, max:1})*20)/20, in twentieths
percentInstance(floating) == (floating * PercentScale + 500) \div 1000

\* _.includes(collection, value)
Includes(collection, value) == value \in collection

\* a guard that lets a missing subType through
RejectedUnlessMissing(subType) == ~Includes(deliveryTypes \cup {"undefined"}, subType)

\* the guard of lines 375-378: console.error and process.exit()
Rejected(subType) == ~Includes(deliveryTypes, subType)

\* no rounding at all
StartOfHourSkipped(t) == t

\* moment(opts.timestamp).startOf('hour')
StartOfHour(t) == t - (t % 60)

\* moment#toISOString, at the resolution of the model
ToISOString(t) == [hour |-> t \div 60, minute |-> t % 60]

\* schemas[name]; undefined (which _.assign skips) when name is no fragment
Fragment(sch, name) == IF name \in DOMAIN sch THEN sch[name] ELSE Empty

\* an assign that restarts from object at every source, so that only the
\* last source survives
RECURSIVE AssignLastOnly(_, _)
AssignLastOnly(object, sources) ==
    IF sources = <<>> THEN object
    ELSE IF Tail(sources) = <<>>
         THEN [k \in (DOMAIN object) \cup (DOMAIN Head(sources)) |->
                  IF k \in DOMAIN Head(sources) THEN Head(sources)[k] ELSE object[k]]
         ELSE AssignLastOnly(object, Tail(sources))

\* _.assign(object, sources...): every source in order, every key of it set
\* on object
RECURSIVE Assign(_, _)
Assign(object, sources) ==
    IF sources = <<>> THEN object
    ELSE LET src == Head(sources)
         IN  Assign([k \in (DOMAIN object) \cup (DOMAIN src) |->
                        IF k \in DOMAIN src THEN src[k] ELSE object[k]],
                    Tail(sources))

\* _.assign(schemas.base, ...): the merge written into the base fragment
ComposeTargetBase == "base"

\* the first argument of both _.assign calls: the literal {}
ComposeTarget == "fresh"

\* _.assign({}, schemas.base, schemas[variant]): _.assign writes into its
\* first argument and returns it
Compose(sch, variant) ==
    LET sources == <<Fragment(sch, "base"), Fragment(sch, variant)>>
        target == IF ComposeTarget = "fresh" THEN Empty ELSE sch[ComposeTarget]
        merged == Assign(target, sources)
    IN  [result |-> merged,
         schemas |-> IF ComposeTarget = "fresh" THEN sch
                     ELSE [sch EXCEPT ![ComposeTarget] = merged]]

\* the delete statement left out
KeepPrevious(basal) == basal

\* the wrong key deleted
DeleteDuration(basal) == Delete(basal, "duration")

\* delete basal.previous
DeletePrevious(basal) == Delete(basal, "previous")

SuppressedKeys == {"type", "deliveryType", "scheduleName", "rate"}

\* the whole generated record attached, not a whitelisted copy
PickAll(object, keys) == object

\* _.pick(object, keys)
Pick(object, keys) == [k \in (DOMAIN object) \cap keys |-> object[k]]

\* the suppressed rate taken over without the multiplier
DerivedRateUnscaled(basal, suppressed) ==
    IF Has(basal, "percent") /\ basal.percent # 0
    THEN Put(basal, "rate", suppressed.rate)
    ELSE basal

\* if (basal.percent) { basal.rate = basal.percent * suppressed.rate; }
DerivedRate(basal, suppressed) ==
    IF Has(basal, "percent") /\ basal.percent # 0
    THEN Put(basal, "rate", (basal.percent * suppressed.rate) \div PercentScale)
    ELSE basal

\* basal.expectedDuration = 1.2 * basal.duration
ExpectedDuration(basal) == Put(basal, "expectedDuration", (12 * basal.duration) \div 10)

\* the else branch left out
KeepExpectedDuration(basal) == basal

\* if (basal.expectedDuration != null) { delete basal.expectedDuration; }
DropExpectedDuration(basal) ==
    IF Has(basal, "expectedDuration") THEN Delete(basal, "expectedDuration") ELSE basal

-----------------------------------------------------------------------------
(* common.js                                                                *)

\* the value of one field: a function instance is called, a literal is used
\* as it is
Resolve(instance, draw) ==
    CASE instance.kind = "string" -> instance.str
      [] instance.kind = "number" -> instance.num
      [] instance.kind = "object" -> Empty
      [] instance.str = "duration" -> draw.duration
      [] instance.str = "basalRateValue" -> draw.rate * PercentScale
      [] instance.str = "percentInstance" -> percentInstance(draw.floating)
      [] instance.str = "bloodKetoneValue" -> draw.ketone

\* the envelope fields every record gets
Envelope(utc, format) ==
    LET always == [time |-> utc, deviceId |-> "DevId0987654321",
                   uploadId |-> "SampleUploadId"]
    IN  IF format = "ingestion" THEN always ELSE Put(always, "id", "id")

\* common.generate(schema, utc, format)
CommonGenerate(schema, utc, format, draw) ==
    Assign([k \in DOMAIN schema |-> Resolve(schema[k].instance, draw)],
           <<Envelope(utc, format)>>)

-----------------------------------------------------------------------------
(* bloodKetone.js                                                           *)

bloodKetoneSchema ==
    [type |-> [instance |-> Str("bloodKetone"), description |-> "type"],
     units |-> [instance |-> Str("mmol/L"), description |-> "units"],
     value |-> [instance |-> Fn("bloodKetoneValue"), description |-> "value"]]

-----------------------------------------------------------------------------
(* State machine.                                                           *)

Init ==
    /\ schemas = InitSchemas
    /\ opts = <<>>
    /\ effective = <<>>
    /\ genArgs = <<>>
    /\ returned = <<>>
    /\ trace = <<>>
    /\ stderr = 0
    /\ exited = FALSE

\* module.generate of basal.js on an unknown subType
BasalReject(o) ==
    /\ stderr' = stderr + 1
    /\ exited' = TRUE
    /\ opts' = o
    /\ effective' = <<>>
    /\ genArgs' = <<>>
    /\ returned' = <<>>
    /\ trace' = <<"console.error", "process.exit">>
    /\ UNCHANGED schemas

\* module.generate of basal.js past the guard, for a scheduled basal
BasalPlain(o, c1, utc, basal1) ==
    /\ schemas' = c1.schemas
    /\ opts' = o
    /\ effective' = <<c1.result>>
    /\ genArgs' = <<[utc |-> utc, format |-> o.format]>>
    /\ returned' = <<DropExpectedDuration(basal1)>>
    /\ trace' = <<"startOf", "assign", "generate", "deletePrevious",
                  "deleteExpectedDuration">>
    /\ UNCHANGED <<stderr, exited>>

\* module.generate of basal.js past the guard, for a temp or suspend basal
BasalSuppressing(o, c1, utc, basal1) ==
    LET c2 == Compose(c1.schemas, "scheduled")
    IN  \E draw2 \in Draws(c2.result) :
            LET suppressed == CommonGenerate(c2.result, utc, "undefined", draw2)
                basal2 == Put(basal1, "suppressed", Pick(suppressed, SuppressedKeys))
                basal3 == DerivedRate(basal2, suppressed)
            IN  /\ schemas' = c2.schemas
                /\ opts' = o
                /\ effective' = <<c1.result, c2.result>>
                /\ genArgs' = <<[utc |-> utc, format |-> o.format],
                                [utc |-> utc, format |-> "undefined"]>>
                /\ returned' = <<ExpectedDuration(basal3)>>
                /\ trace' = <<"startOf", "assign", "generate", "deletePrevious",
                              "assign", "generate", "pick", "rate",
                              "expectedDuration">>
                /\ UNCHANGED <<stderr, exited>>

\* module.generate(opts) of basal.js
BasalGenerate ==
    /\ ~exited
    /\ \E subType \in SubTypes, timestamp \in Timestamps, format \in Formats :
        LET o == [module |-> "basal", subType |-> subType,
                  timestamp |-> timestamp, format |-> format]
        IN  IF Rejected(subType)
            THEN BasalReject(o)
            ELSE LET roundedTimestamp == StartOfHour(timestamp)
                     utc == ToISOString(roundedTimestamp)
                     c1 == Compose(schemas, subType)
                 IN  \E draw \in Draws(c1.result) :
                        LET basal == CommonGenerate(c1.result, utc, format, draw)
                            basal1 == DeletePrevious(basal)
                        IN  IF Includes({"temp", "suspend"}, subType)
                            THEN BasalSuppressing(o, c1, utc, basal1)
                            ELSE BasalPlain(o, c1, utc, basal1)

\* module.generate(utc, format) of bloodKetone.js
BloodKetoneGenerate ==
    /\ ~exited
    /\ \E timestamp \in Timestamps, format \in Formats :
        \E draw \in Draws(bloodKetoneSchema) :
            LET utc == ToISOString(timestamp)
            IN  /\ opts' = [module |-> "bloodKetone", subType |-> "undefined",
                            timestamp |-> timestamp, format |-> format]
                /\ effective' = <<bloodKetoneSchema>>
                /\ genArgs' = <<[utc |-> utc, format |-> format]>>
                /\ returned' = <<CommonGenerate(bloodKetoneSchema, utc, format, draw)>>
                /\ trace' = <<"generate">>
                /\ UNCHANGED <<schemas, stderr, exited>>

Next == BasalGenerate \/ BloodKetoneGenerate

Spec == Init /\ [][Next]_vars

-----------------------------------------------------------------------------
(* Properties.                                                              *)

Called == trace # <<>>

\* the last call was basal.generate and it returned a record
BasalReturned == Called /\ opts.module = "basal" /\ returned # <<>>

Record == returned[1]

Contexts == {"jellyfish", "platform"}

\* C1: basal.generate with a subType outside {scheduled, temp, suspend}, a
\* missing one included, writes an error, terminates and returns no record;
\* it composes nothing and generates nothing for that call.
C1_UnknownSubTypeRejected ==
    (Called /\ opts.module = "basal"
            /\ opts.subType \notin {"scheduled", "temp", "suspend"})
    => /\ stderr > 0
       /\ exited
       /\ returned = <<>>
       /\ effective = <<>>
       /\ genArgs = <<>>
       /\ \A i \in DOMAIN trace : trace[i] \notin {"assign", "generate"}

C1_Witness ==
    Called /\ opts.module = "basal" /\ opts.subType = "undefined" /\ exited

\* C2: a returned record that carries percent has
\* rate = percent * suppressed.rate, at percent = 0 as well.
C2_TempRateIsPercentOfSuppressed ==
    (BasalReturned /\ Has(Record, "percent"))
    => Record.rate * PercentScale = Record.percent * Record.suppressed.rate

C2_Witness ==
    /\ BasalReturned
    /\ opts.subType = "temp"
    /\ Record.percent = 0
    /\ Record.suppressed.rate > 0

\* C3: a returned scheduled record has no expectedDuration key; a returned
\* temp or suspend record has it.
C3_ExpectedDurationOnlyForTempSuspend ==
    BasalReturned
    => (Has(Record, "expectedDuration") <=> opts.subType \in {"temp", "suspend"})

C3_Witness ==
    /\ BasalReturned
    /\ opts.subType = "scheduled"
    /\ Has(effective[1], "expectedDuration")
    /\ ~Has(Record, "expectedDuration")

InRange(rec, k, range) ==
    /\ rec[k] <= range.max
    /\ IF Has(range, "min") THEN rec[k] >= range.min ELSE rec[k] >= rec[range.minRef]

\* C4: every numeric field of a returned basal record lies within the
\* [min, max] its descriptor declares; expectedDuration = 1.2 * duration is
\* at most 86400000 for temp and suspend.
C4_NumericFieldsInDeclaredRange ==
    BasalReturned
    => \A k \in (DOMAIN Record) \cap (DOMAIN effective[1]) :
          Has(effective[1][k].summary, "range")
          => InRange(Record, k, effective[1][k].summary.range)

\* C5: a returned basal record has every field required in a context, and
\* every field of the effective schema that it lacks is not applicable
\* (required = null) in that context.
C5_AbsentOnlyIfNotApplicable ==
    BasalReturned
    => \A ctx \in Contexts : \A k \in DOMAIN effective[1] :
          /\ effective[1][k].summary.required[ctx] = "true" => Has(Record, k)
          /\ ~Has(Record, k) => effective[1][k].summary.required[ctx] = "null"

\* C5, amended: a returned basal record has every field required in a
\* context; the fields of the effective schema that it lacks are previous
\* and, for scheduled only, expectedDuration, whose required flag is false
\* or null in every context.
C5_AbsentOnlyIfNotRequired ==
    BasalReturned
    => /\ \A ctx \in Contexts : \A k \in DOMAIN effective[1] :
             /\ effective[1][k].summary.required[ctx] = "true" => Has(Record, k)
             /\ ~Has(Record, k)
                => effective[1][k].summary.required[ctx] \in {"false", "null"}
       /\ (DOMAIN effective[1]) \ (DOMAIN Record) =
             IF opts.subType = "scheduled" THEN {"previous", "expectedDuration"}
             ELSE {"previous"}

C5_Witness ==
    /\ BasalReturned
    /\ opts.subType = "scheduled"
    /\ ~Has(Record, "previous")
    /\ effective[1].previous.summary.required.jellyfish = "false"

\* C6: the suppressed value of a returned temp or suspend record has keys
\* among type, deliveryType, scheduleName, rate only; a returned scheduled
\* record has no suppressed key.
C6_SuppressedWhitelisted ==
    BasalReturned
    => IF opts.subType \in {"temp", "suspend"}
       THEN /\ Has(Record, "suppressed")
            /\ DOMAIN Record.suppressed
                  \subseteq {"type", "deliveryType", "scheduleName", "rate"}
       ELSE ~Has(Record, "suppressed")

C6_Witness ==
    /\ BasalReturned
    /\ opts.subType = "suspend"
    /\ DOMAIN Record.suppressed = {"type", "deliveryType", "scheduleName", "rate"}

HasContract(descriptor) ==
    /\ Has(descriptor, "summary")
    /\ Has(descriptor.summary, "required")
    /\ Contexts \subseteq DOMAIN descriptor.summary.required

\* C7: every field a record-type module's schema contributes to a returned
\* record has a contract entry with a required flag per context.
C7_EveryFieldHasContract ==
    (Called /\ returned # <<>>)
    => \A k \in (DOMAIN effective[1]) \cap (DOMAIN Record) :
          HasContract(effective[1][k])

\* C8: the effective schema of a basal call is the right-biased shallow merge
\* of the base fragment and the variant fragment: the union of their field
\* names, each with the whole descriptor of the last fragment defining it;
\* the schema composed for the suppressed record is that merge for scheduled.
C8_EffectiveIsRightBiasedMerge ==
    (Called /\ opts.module = "basal" /\ effective # <<>>)
    => \A i \in DOMAIN effective :
          LET base == schemas.base
              variant == IF i = 1 THEN schemas[opts.subType] ELSE schemas.scheduled
          IN  /\ DOMAIN effective[i] = (DOMAIN base) \cup (DOMAIN variant)
              /\ \A k \in DOMAIN effective[i] :
                    effective[i][k] =
                        IF k \in DOMAIN variant THEN variant[k] ELSE base[k]

C8_Witness ==
    /\ Called /\ opts.module = "basal" /\ opts.subType = "temp"
    /\ Len(effective) = 2
    /\ Has(effective[1], "type") /\ Has(effective[1], "percent")
    /\ Has(effective[2], "type") /\ Has(effective[2], "scheduleName")

\* C9: both generations of a basal call get the start of the hour of
\* opts.timestamp, and the time of the returned record is that start of hour.
C9_RoundedTimestampEverywhere ==
    BasalReturned
    => LET rounded == [hour |-> opts.timestamp \div 60, minute |-> 0]
       IN  /\ Len(genArgs) = IF opts.subType \in {"temp", "suspend"} THEN 2 ELSE 1
           /\ \A i \in DOMAIN genArgs : genArgs[i].utc = rounded
           /\ Record.time = rounded
           /\ Has(Record, "suppressed") /\ Has(Record.suppressed, "time")
              => Record.suppressed.time = rounded

C9_Witness ==
    /\ BasalReturned
    /\ opts.subType = "temp"
    /\ opts.timestamp % 60 = 59
    /\ Len(genArgs) = 2
    /\ Record.time.minute = 0

\* C10: after any sequence of calls the fragments base, scheduled, temp and
\* suspend are what they were at module initialization.
C10_FragmentsUnchanged == schemas = InitSchemas

C10_Witness ==
    /\ BasalReturned
    /\ opts.subType = "suspend"
    /\ Has(Record, "suppressed")
    /\ ~Has(Record, "previous")

\* the positions of a step in the trace of the last call
Positions(step) == {i \in DOMAIN trace : trace[i] = step}

\* C11: no record returned by basal.generate has the key previous, whatever
\* the known subType and the format; previous is removed after the outer
\* record is generated and before the suppressed record is attached and the
\* derived rate and expectedDuration are computed.
C11_PreviousNeverReturned ==
    BasalReturned
    => /\ ~Has(Record, "previous")
       /\ \E d \in Positions("deletePrevious") :
             /\ \E g \in Positions("generate") : g < d
             /\ \A i \in DOMAIN trace :
                   trace[i] \in {"pick", "rate", "expectedDuration",
                                 "deleteExpectedDuration"}
                   => d < i

C11_Witness ==
    /\ BasalReturned
    /\ opts.subType = "temp"
    /\ opts.format = "ingestion"
    /\ Has(effective[1], "previous")
    /\ ~Has(Record, "previous")
    /\ Positions("pick") # {}

====
